---- MODULE Spec2Model ----
(***************************************************************************)
(* Concordia party relay (src/concordia/server.py, src/concordia/dedupe.py) *)
(* as a state machine.  One asyncio task per connection handler plus the   *)
(* task running PartyServer.start; a step of a task runs from one          *)
(* suspension point (an await that suspends) to the next.                  *)
(***************************************************************************)
EXTENDS Integers, Sequences, FiniteSets, TLC

\* ---------------------------------------------------------------- bounds
MaxConns == 2          \* websocket connections ever accepted
MaxPrompts == 3        \* prompt messages accepted by _enqueue_prompt
MaxMinPrompts == 2     \* largest configured --min-prompts
MaxHostLen == 2        \* characters of an invite's host
MaxPort == 12          \* largest port of an invite
MaxTokenLen == 2       \* characters of an invite's token
MaxCodeLen == 4        \* characters of a typed invite code, after the prefix
MaxBusPrompts == 3     \* prompts submitted to the prompt bus
MaxProcs == 2          \* promptbus commands run side by side on one database
Window == 3            \* --dedupe-window, in clock ticks (default 3.0)

Conns == 1..MaxConns
Main == 0              \* the task running PartyServer.start
Tasks == {Main} \cup Conns
NoName == ""

\* ------------------------------------------------- dict (state.connections)
\* A Python dict keeps its entries in insertion order; a deleted entry leaves
\* a hole, a new key is appended, an existing key keeps its slot.
Hole == [name |-> NoName, ws |-> 0]

DictLen(d) == Cardinality({i \in DOMAIN d : d[i] # Hole})

DictHas(d, n) == \E i \in DOMAIN d : d[i] # Hole /\ d[i].name = n

DictKeys(d) == {d[i].name : i \in {j \in DOMAIN d : d[j] # Hole}}

DictValues(d) == {d[i].ws : i \in {j \in DOMAIN d : d[j] # Hole}}

DictSet(d, n, w) ==
    IF DictHas(d, n)
    THEN [i \in DOMAIN d |-> IF d[i].name = n THEN [name |-> n, ws |-> w] ELSE d[i]]
    ELSE Append(d, [name |-> n, ws |-> w])

DictPop(d, n) == [i \in DOMAIN d |-> IF d[i].name = n THEN Hole ELSE d[i]]

RECURSIVE DictPopAll(_, _)
DictPopAll(d, ns) ==
    IF ns = {} THEN d
    ELSE LET n == CHOOSE x \in ns : TRUE IN DictPopAll(DictPop(d, n), ns \ {n})

\* The dict iterator behind "for name, ws in connections.items()": it raises
\* RuntimeError when the size differs from the size at its creation, or when
\* it finds an entry after having yielded that many; it stops at the end.
IterNext(d, it) ==
    LET rest == {i \in DOMAIN d : i > it.pos /\ d[i] # Hole} IN
    IF it.used # DictLen(d) THEN [tag |-> "raise", idx |-> 0]
    ELSE IF rest = {} THEN [tag |-> "stop", idx |-> 0]
    ELSE IF it.left = 0 THEN [tag |-> "raise", idx |-> 0]
    ELSE [tag |-> "item", idx |-> CHOOSE i \in rest : \A j \in rest : i <= j]

\* ------------------------------------------- invite codes (utils.py)
\* A string is the sequence of its characters.
INVITE_PREFIX == <<"c", "o", "n", "c", "o", "r", "d", "i", "a", ":", "/", "/">>

DigitChars == <<"0", "1", "2", "3", "4", "5", "6", "7", "8", "9">>

IsDigit(ch) == \E i \in DOMAIN DigitChars : DigitChars[i] = ch

DigitValue(ch) == (CHOOSE i \in DOMAIN DigitChars : DigitChars[i] = ch) - 1

\* str(n) for n >= 0 (the f-string of line 45 renders the port with it).
RECURSIVE Str(_)
Str(n) == IF n < 10 THEN <<DigitChars[n + 1]>>
          ELSE Append(Str(n \div 10), DigitChars[(n % 10) + 1])

\* int(s) on a string without sign, blank or underscore: defined on the
\* non-empty strings of digits, ValueError on the others.
IntParses(s) == s # <<>> /\ \A i \in DOMAIN s : IsDigit(s[i])

RECURSIVE IntOf(_)
IntOf(s) == IF s = <<>> THEN 0
            ELSE IntOf(SubSeq(s, 1, Len(s) - 1)) * 10 + DigitValue(s[Len(s)])

StartsWith(s, p) == Len(s) >= Len(p) /\ SubSeq(s, 1, Len(p)) = p

Contains(s, ch) == \E i \in DOMAIN s : s[i] = ch

FirstIndex(s, ch) == CHOOSE i \in DOMAIN s : s[i] = ch /\ \A j \in 1..(i - 1) : s[j] # ch

LastIndex(s, ch) == CHOOSE i \in DOMAIN s : s[i] = ch /\ \A j \in (i + 1)..Len(s) : s[j] # ch

\* s.split(ch, 1) and s.rsplit(ch, 1) on a string that contains ch.
Split(s, ch) == <<SubSeq(s, 1, FirstIndex(s, ch) - 1),
                  SubSeq(s, FirstIndex(s, ch) + 1, Len(s))>>

RSplit(s, ch) == <<SubSeq(s, 1, LastIndex(s, ch) - 1),
                   SubSeq(s, LastIndex(s, ch) + 1, Len(s))>>

\* Line 45.
format_invite(host, port, token) ==
    INVITE_PREFIX \o host \o <<":">> \o Str(port) \o <<"/">> \o token

\* The outcome of parse_invite: the Invite it returns, or ValueError.
Invite(host, port, token) == [ok |-> TRUE, host |-> host, port |-> port, token |-> token]
ValueError == [ok |-> FALSE, host |-> <<>>, port |-> 0, token |-> <<>>]

\* Line 56: host_port.rsplit(":", 1); the other is host_port.split(":", 1).
HostPortFirst(host_port) == Split(host_port, ":")
HostPort(host_port) == RSplit(host_port, ":")

\* Lines 48-57.
parse_invite(c) ==
    LET code == IF StartsWith(c, INVITE_PREFIX)
                THEN SubSeq(c, Len(INVITE_PREFIX) + 1, Len(c)) ELSE c
    IN IF ~Contains(code, "/") THEN ValueError
       ELSE LET host_port == Split(code, "/")[1]
                token == Split(code, "/")[2]
            IN IF ~Contains(host_port, ":") THEN ValueError
               ELSE LET host == HostPort(host_port)[1]
                        port_str == HostPort(host_port)[2]
                    IN IF IntParses(port_str)
                       THEN Invite(host, IntOf(port_str), token)
                       ELSE ValueError

NoCodec == [stage |-> "idle", host |-> <<>>, port |-> 0, token |-> <<>>,
            code |-> <<>>, result |-> ValueError]

\* --------------------------------------------- the prompt bus (promptbus.py)
\* The database: prompts and tasks are rows in id order (AUTOINCREMENT ids
\* 1, 2, ...), task_prompts is a set of <<task_id, prompt_id>> rows.  A
\* prompt's text is the set of its tokens; a task's text is the list of the
\* prompts build_task_prompt made it from.
Procs == 1..MaxProcs

NoTask == [id |-> 0, prompt |-> <<>>]

NoBus == [db |-> [prompts |-> <<>>, tasks |-> <<>>, task_prompts |-> {}],
          writer |-> 0,
          proc |-> [p \in Procs |-> [pc |-> "idle", role |-> "", task |-> NoTask,
                                     code |-> 0]],
          claimed |-> <<>>]

RECURSIVE SortedSeq(_)
SortedSeq(ids) ==
    IF ids = {} THEN <<>>
    ELSE LET m == CHOOSE i \in ids : \A j \in ids : i <= j
         IN <<m>> \o SortedSeq(ids \ {m})

\* Lines 117-118: the tokens of the heading build_task_prompt writes, and
\* lines 122-123: those of "- From sam: untitled" (every prompt here is
\* submitted by sam without a title).
Boilerplate == {"you", "are", "the", "execution", "agent", "deduplicate", "and",
                "satisfy", "following", "combined", "user", "prompts",
                "from", "sam", "untitled"}

\* tokenize(build_task_prompt(prompts)) for the prompts with the given ids.
TextTokens(db, ids) ==
    Boilerplate \cup UNION {db.prompts[ids[k]].tokens : k \in DOMAIN ids}

\* Line 169: tokenize(t.prompt + " " + t.summary).
TaskTokens(db, t) == TextTokens(db, db.tasks[t].prompt) \cup db.tasks[t].summary

\* Lines 99-106, as the fraction <<numerator, denominator>>.
jaccard(sa, sb) ==
    IF sa = {} /\ sb = {} THEN <<1, 1>>
    ELSE IF sa = {} \/ sb = {} THEN <<0, 1>>
    ELSE <<Cardinality(sa \cap sb), Cardinality(sa \cup sb)>>

Greater(x, y) == x[1] * y[2] > y[1] * x[2]

\* score >= threshold, the threshold in hundredths.
AtLeast(x, pct) == x[1] * 100 >= pct * x[2]

\* Lines 177-183 and 192-199: the first candidate of the greatest score,
\* the candidates' scores given in order, 0 when no score is above 0.0.
Best(scores) ==
    IF \A i \in DOMAIN scores : ~Greater(scores[i], <<0, 1>>) THEN 0
    ELSE CHOOSE i \in DOMAIN scores :
            /\ \A j \in DOMAIN scores : ~Greater(scores[j], scores[i])
            /\ \A j \in 1..(i - 1) : Greater(scores[i], scores[j])

\* Lines 129-133 and 136-140: ids in ascending order.
fetch_new_prompts(db) ==
    SortedSeq({i \in DOMAIN db.prompts : db.prompts[i].status = "NEW"})

fetch_open_tasks(db) ==
    SortedSeq({t \in DOMAIN db.tasks : db.tasks[t].status = "NEW"})

\* Lines 143-148.
attach_row_only(db, prompt_id, task_id) ==
    [db EXCEPT !.task_prompts = @ \cup {<<task_id, prompt_id>>}]

attach_prompt_to_task(db, prompt_id, task_id) ==
    [db EXCEPT !.prompts[prompt_id].status = "CLUSTERED",
               !.prompts[prompt_id].task_id = task_id,
               !.task_prompts = @ \cup {<<task_id, prompt_id>>}]

\* Lines 151-156; summarize (lines 109-113) of a prompt without a title is
\* its first words.
create_task(db, first, ids) ==
    [db EXCEPT !.tasks = Append(@, [summary |-> db.prompts[first].tokens,
                                    prompt |-> ids, status |-> "NEW",
                                    run_count |-> 0])]

\* Lines 174-204: the new prompts in order; acc.db is the database so far,
\* acc.clusters the new clusters.  The tokens of the open tasks are those
\* read before the loop (db0).
RECURSIVE Clustered(_, _, _, _, _)
Clustered(db0, open_tasks, pct, ps, acc) ==
    IF ps = <<>> THEN acc
    ELSE LET p == Head(ps)
             p_tokens == db0.prompts[p].tokens
             task_score == [k \in DOMAIN open_tasks |->
                               jaccard(p_tokens, TaskTokens(db0, open_tasks[k]))]
             best_task == Best(task_score)
             cluster_tokens(k) ==
                 UNION {db0.prompts[acc.clusters[k][i]].tokens : i \in DOMAIN acc.clusters[k]}
             cluster_score == [k \in DOMAIN acc.clusters |->
                                  jaccard(p_tokens, cluster_tokens(k))]
             best_cluster == Best(cluster_score)
         IN IF best_task # 0 /\ AtLeast(task_score[best_task], pct)
            THEN Clustered(db0, open_tasks, pct, Tail(ps),
                           [acc EXCEPT !.db = attach_prompt_to_task(@, p, open_tasks[best_task])])
            ELSE IF best_cluster # 0 /\ AtLeast(cluster_score[best_cluster], pct)
            THEN Clustered(db0, open_tasks, pct, Tail(ps),
                           [acc EXCEPT !.clusters[best_cluster] = Append(@, p)])
            ELSE Clustered(db0, open_tasks, pct, Tail(ps),
                           [acc EXCEPT !.clusters = Append(@, <<p>>)])

RECURSIVE AttachedAll(_, _, _)
AttachedAll(db, ids, task_id) ==
    IF ids = <<>> THEN db
    ELSE AttachedAll(attach_prompt_to_task(db, Head(ids), task_id), Tail(ids), task_id)

\* Lines 206-212: one new task per cluster.
RECURSIVE TasksCreated(_, _)
TasksCreated(db, clusters) ==
    IF clusters = <<>> THEN db
    ELSE LET ids == Head(clusters)
             db1 == create_task(db, Head(ids), ids)
         IN TasksCreated(AttachedAll(db1, ids, Len(db1.tasks)), Tail(clusters))

\* Lines 215-222: the text of every task that was open is rebuilt from the
\* prompts that now name it.
Refreshed(db, open_tasks) ==
    [db EXCEPT !.tasks =
        [t \in DOMAIN @ |->
            LET ids == SortedSeq({i \in DOMAIN db.prompts : db.prompts[i].task_id = t})
            IN IF (\E k \in DOMAIN open_tasks : open_tasks[k] = t) /\ ids # <<>>
               THEN [@[t] EXCEPT !.prompt = ids] ELSE @[t]]]

\* Lines 163-224.
dedupe(db, pct) ==
    LET new_prompts == fetch_new_prompts(db)
        open_tasks == fetch_open_tasks(db)
        acc == Clustered(db, open_tasks, pct, new_prompts, [db |-> db, clusters |-> <<>>])
    IN IF new_prompts = <<>> THEN db
       ELSE Refreshed(TasksCreated(acc.db, acc.clusters), open_tasks)

\* Lines 240-244.
mark_task_done(db, task_id, status) ==
    [db EXCEPT !.tasks[task_id].status = status,
               !.tasks[task_id].run_count = @ + 1]

\* ------------------------------------------------------------------ state
VARIABLES
    env,                \* "open": peers may close their end at any time;
                        \* "stable": no peer closes before the server does
    min_prompts,        \* state.min_prompts
    connections,        \* state.connections: name -> websocket
    pending,            \* state.pending: the prompt queue
    last_prompt_ts,     \* "None" or "set" (self._last_prompt_ts)
    elapsed,            \* time.time() - time of the latest append, capped at Window
    lock,               \* self._lock: asyncio.Lock
    api_key,            \* os.environ["GEMINI_API_KEY"]
    deduped_prompts,    \* state.deduped_prompts
    context_written,    \* state.context_written
    pc,                 \* where each task is suspended
    bc,                 \* each task's _broadcast call in progress
    todo,               \* broadcasts a task issues next, before its next await
    batch,              \* _dedupe_loop's local batch
    combined,           \* _process_batch's local combined
    key,                \* _process_batch's local api_key
    name,               \* _handler's local name, per connection
    open,               \* whether a connection's transport is open
    peer,               \* each peer's side: what it has been sent, whether a
                        \* ping of its is on its way to the handler, and the
                        \* latest odd message it has had read ("blank": a prompt
                        \* of blanks only; "unknown": of no known type)
    hist,               \* history of the run, for the properties
    codec,              \* an invite code being formatted or parsed (utils.py)
    bus                 \* the prompt bus (promptbus.py): its database, the
                        \* holder of the write lock, and each command's position

vars == <<env, min_prompts, connections, pending, last_prompt_ts, elapsed, lock, api_key,
          deduped_prompts, context_written, pc, bc, todo, batch, combined, key,
          name, open, peer, hist, codec, bus>>

\* The current state as one record, so that the code run between two
\* suspension points composes as functions on it.
S == [env |-> env, min_prompts |-> min_prompts, connections |-> connections, pending |-> pending,
      last_prompt_ts |-> last_prompt_ts, elapsed |-> elapsed, lock |-> lock,
      api_key |-> api_key, deduped_prompts |-> deduped_prompts,
      context_written |-> context_written, pc |-> pc, bc |-> bc, todo |-> todo,
      batch |-> batch, combined |-> combined, key |-> key, name |-> name,
      open |-> open, peer |-> peer, hist |-> hist, codec |-> codec, bus |-> bus]

Set(s) ==
    /\ env' = s.env
    /\ min_prompts' = s.min_prompts
    /\ connections' = s.connections
    /\ pending' = s.pending
    /\ last_prompt_ts' = s.last_prompt_ts
    /\ elapsed' = s.elapsed
    /\ lock' = s.lock
    /\ api_key' = s.api_key
    /\ deduped_prompts' = s.deduped_prompts
    /\ context_written' = s.context_written
    /\ pc' = s.pc
    /\ bc' = s.bc
    /\ todo' = s.todo
    /\ batch' = s.batch
    /\ combined' = s.combined
    /\ key' = s.key
    /\ name' = s.name
    /\ open' = s.open
    /\ peer' = s.peer
    /\ hist' = s.hist
    /\ codec' = s.codec
    /\ bus' = s.bus

Msg(type, text) == [type |-> type, text |-> text, users |-> {}]
NoMsg == Msg("", "")
SystemMsg(text) == Msg("system", text)
ErrorMsg(text) == Msg("error", text)
ParticipantsMsg == Msg("participants", "")
OutputMsg == Msg("output", "line")
NoBc == [active |-> FALSE, msg |-> NoMsg, pos |-> 0, used |-> 0, left |-> 0,
         dead |-> {}, snap |-> {}, tried |-> {}, older |-> {}, late |-> {}]
NoCombined == [via |-> "", text |-> "", items |-> <<>>]

Init ==
    /\ env = "open"
    /\ min_prompts \in 1..MaxMinPrompts
    /\ connections = <<>>
    /\ pending = <<>>
    /\ last_prompt_ts = "None"
    /\ elapsed = 0
    /\ lock = [locked |-> FALSE, waiters |-> <<>>]
    /\ api_key = "key"
    /\ deduped_prompts = <<>>
    /\ context_written = FALSE
    /\ pc = [t \in Tasks |-> IF t = Main THEN "start" ELSE "idle"]
    /\ bc = [t \in Tasks |-> NoBc]
    /\ todo = [t \in Tasks |-> <<>>]
    /\ batch = <<>>
    /\ combined = NoCombined
    /\ key = ""
    /\ name = [c \in Conns |-> NoName]
    /\ open = [c \in Conns |-> FALSE]
    /\ peer = [c \in Conns |-> [helloErrors |-> 0, startErrors |-> 0, first |-> "none",
                               pinged |-> FALSE, invited |-> FALSE, lefts |-> 0,
                               view |-> {}, odd |-> "none", knows |-> FALSE]]
    /\ hist = [accepted |-> 0, cutCount |-> [p \in 1..MaxPrompts |-> 0],
               short |-> {}, authRejected |-> FALSE,
               startFailed |-> FALSE, atStartFail |-> {},
               summaries |-> 0, writes |-> 0, resumes |-> 0]
    /\ codec = NoCodec
    /\ bus = NoBus

\* ------------------------------------------------- asyncio.Lock (self._lock)
\* acquire() returns at once when the lock is free and nobody waits for it;
\* otherwise the caller queues and suspends.  release() unlocks and wakes the
\* first waiter, which takes the lock when it next runs.
LockFreeAlways(l) == TRUE
LockFree(l) == ~l.locked /\ l.waiters = <<>>
LockGranted(l, t) == ~l.locked /\ l.waiters # <<>> /\ Head(l.waiters) = t
Enqueued(l, t) == [l EXCEPT !.waiters = Append(@, t)]
TakenNot(l) == l
StillHeld(l) == l
Taken(l) == [locked |-> TRUE, waiters |-> l.waiters]
TakenBy(l, t) == [locked |-> TRUE, waiters |-> Tail(l.waiters)]
Released(l) == [l EXCEPT !.locked = FALSE]

\* ------------------------------------------------------------ _broadcast
Min2(a, b) == IF a < b THEN a ELSE b

\* A write to state.connections by task t.
Mutate(s, t, d) == [s EXCEPT !.connections = d]

\* ws.send(raw) on the entry in slot i (lines 102-105): delivered, or
\* ConnectionClosed and the name joins the dead list.
Sent(s, t, i, ok) ==
    LET e == s.connections[i]
        b == s.bc[t]
    IN [s EXCEPT
          !.open[e.ws] = ok,
          !.bc = [u \in Tasks |->
                    IF u = t
                    THEN [b EXCEPT !.pos = i, !.left = @ - 1,
                                   !.dead = IF ok THEN @ ELSE @ \cup {e.name},
                                   !.tried = @ \cup {e.ws}]
                    ELSE IF ok /\ s.bc[u].active /\ u \in b.older
                    THEN [s.bc[u] EXCEPT !.late = @ \cup {e.ws}]
                    ELSE s.bc[u]],
          !.peer[e.ws].startErrors =
              IF ok /\ b.msg = ErrorMsg("failed to start claude")
              THEN Min2(@ + 1, 2) ELSE @,
          !.peer[e.ws].view =
              IF ok /\ b.msg.type = "participants" THEN b.msg.users ELSE @]

\* The outcomes of the send: a peer whose transport is open may have closed
\* it by now (a close is seen by the host only at a send or a recv).
BcSend(s, t, i) ==
    LET now == s.open[s.connections[i].ws] IN
    {Sent(s, t, i, ok) : ok \in IF s.env = "stable" THEN {now} ELSE {now, FALSE}}

\* The end of a _broadcast call, by return or by exception.
BcEnd(s, t) ==
    [s EXCEPT !.bc = [u \in Tasks |->
                        IF u = t THEN NoBc
                        ELSE [s.bc[u] EXCEPT !.older = @ \ {t}]]]

\* Lines 106-107: the dead names are popped after the loop.
Pruned(d, dead) == DictPopAll(d, dead)

FirstSlot(d) == CHOOSE i \in DOMAIN d : d[i] # Hole /\ \A j \in DOMAIN d : d[j] # Hole => i <= j

\* The message of a call: _broadcast_participants reads the keys when called.
Filled(m, d) == IF m.type = "participants" THEN [m EXCEPT !.users = DictKeys(d)] ELSE m

\* --------------------------------------------------------------- shutdown
NonBlank(ps) == {i \in DOMAIN ps : ps[i].text # "empty"}

\* Leaving "async with websockets.serve(...)" (line 54): the server closes
\* every connection and accepts no more.
Closed(s) ==
    [s EXCEPT !.pc[Main] = "closed", !.open = [c \in Conns |-> FALSE]]

\* shutdown() and _write_context_file() (lines 202-210, 265-288); start()
\* calls shutdown() again from its finally, which finds context_written set.
\* Line 266: the guard of _write_context_file.
AlreadyWrittenNever(s) == FALSE
AlreadyWritten(s) == s.context_written

\* One call of shutdown() (lines 202-210, 265-288) with `more` further calls
\* to follow it in start(): the call returns at once when the flag is set;
\* it writes the placeholder file when the history has no prompt; otherwise
\* it suspends in the summary call.
RECURSIVE ShutdownCall(_, _)
ShutdownCall(s, more) ==
    LET then(s1) == IF more > 0 THEN ShutdownCall(s1, more - 1) ELSE {Closed(s1)}
    IN IF AlreadyWritten(s) THEN then(s)
       ELSE IF NonBlank(s.deduped_prompts) = {}
            THEN then([s EXCEPT !.context_written = TRUE,
                                !.hist.writes = Min2(@ + 1, 2)])
            ELSE {[s EXCEPT !.context_written = TRUE,
                            !.hist.summaries = Min2(@ + 1, 2),
                            !.pc[Main] = IF more > 0 THEN "summary61" ELSE "summary"]}

\* start() after a failed _start_claude: shutdown() at line 61, then again
\* from the finally at line 65.
Shutdown(s) == ShutdownCall(s, 1)

\* An exception leaves _dedupe_loop or _start_claude: start()'s finally.
Crashed(s) == ShutdownCall(s, 0)

\* The handler returns or raises: websockets closes the connection.
HandlerEnd(s, c) == [s EXCEPT !.pc[c] = "done", !.open[c] = FALSE, !.name[c] = NoName]

\* Back at the sleep of _dedupe_loop (line 129); the locals of the turn
\* just ended are dead.
Asleep(s) ==
    [s EXCEPT !.pc[Main] = "sleep", !.batch = <<>>, !.combined = NoCombined,
              !.key = ""]

\* Every function below gives the set of states the code can reach at its
\* next suspension.
RECURSIVE Begin(_, _, _, _), Resume(_, _, _), Raise(_, _, _)

\* _broadcast(msgs[1]); _broadcast(msgs[2]); ... then the code that follows
\* them at `label`, up to the first await that suspends.  A call on an empty
\* registry returns at once (line 97); otherwise the first send is made.
Begin(s, t, msgs, label) ==
    IF msgs = <<>> \/ DictLen(s.connections) = 0
    THEN Resume([s EXCEPT !.todo[t] = <<>>], t, label)
    ELSE LET d == s.connections
             m == Filled(Head(msgs), d)
             b0 == [active |-> TRUE, msg |-> m, pos |-> 0, used |-> DictLen(d),
                    left |-> DictLen(d), dead |-> {}, snap |-> DictValues(d),
                    tried |-> {}, older |-> {u \in Tasks \ {t} : s.bc[u].active},
                    late |-> {}]
             s1 == [s EXCEPT !.bc[t] = b0, !.todo[t] = Tail(msgs), !.pc[t] = label]
         IN BcSend(s1, t, FirstSlot(d))

\* The handler's finally (lines 90-94).
Finally(s, c) ==
    IF s.name[c] # NoName /\ DictHas(s.connections, s.name[c])
    THEN Begin(Mutate([s EXCEPT !.peer[c].lefts = Min2(@ + 1, 2)], c,
                      DictPop(s.connections, s.name[c])), c,
               <<SystemMsg("left"), ParticipantsMsg>>, "leaving")
    ELSE {HandlerEnd(s, c)}

\* _write_prompt_to_claude up to its first await (lines 212-230).
WritePrompt(s) ==
    IF s.combined.text = "empty"
    THEN Begin(s, Main, <<ErrorMsg("Cannot send empty prompt")>>, "emptyerr")
    ELSE IF LockFree(s.lock)
         THEN {[s EXCEPT !.lock = Taken(@), !.pc[Main] = "claude",
                         !.hist.resumes = Min2(@ + 1, 2)]}
         ELSE {[s EXCEPT !.lock = Enqueued(@, Main), !.pc[Main] = "writewait"]}

\* The code after the broadcasts issued at `label` have returned.
Resume(s, t, label) ==
    CASE label = "joined" -> {[s EXCEPT !.pc[t] = "loop"]}
      [] label = "received" -> {[s EXCEPT !.pc[t] = "loop"]}
      [] label = "leaving" -> {HandlerEnd(s, t)}
      [] label = "started" -> {Asleep(s)}
      [] label = "startfail" -> Shutdown(s)
      [] label = "deduping" -> {[s EXCEPT !.key = s.api_key, !.pc[t] = "merge"]}
      [] label = "mergeerr" -> {Asleep(s)}
      [] label = "running" ->
            WritePrompt([s EXCEPT !.deduped_prompts = Append(@, s.combined)])
      [] label = "emptyerr" -> {Asleep(s)}
      [] label = "output" -> {Asleep([s EXCEPT !.lock = Released(@)])}
      [] label = "sendfail" -> {Asleep(s)}

\* RuntimeError out of the for loop of a _broadcast issued at `label`.
Raise(s, t, label) ==
    CASE label \in {"joined", "received"} -> Finally(s, t)
      [] label = "leaving" -> {HandlerEnd(s, t)}
      [] label = "started" ->
            Begin(s, t, <<ErrorMsg("failed to start claude")>>, "startfail")
      [] label = "output" ->
            Begin([s EXCEPT !.lock = Released(@)], t,
                  <<ErrorMsg("Failed to send prompt")>>, "sendfail")
      [] OTHER -> Crashed(s)

\* One turn of the for loop of _broadcast (lines 101-107).
Step(s, t) ==
    LET r == IterNext(s.connections, s.bc[t]) IN
    CASE r.tag = "item" -> BcSend(s, t, r.idx)
      [] r.tag = "stop" ->
            LET s1 == BcEnd(s, t)
                s2 == Mutate(s1, t, Pruned(s1.connections, s.bc[t].dead))
            IN Begin(s2, t, s.todo[t], s.pc[t])
      [] r.tag = "raise" ->
            Raise([BcEnd(s, t) EXCEPT !.todo[t] = <<>>], t, s.pc[t])

BroadcastStep(t) ==
    /\ bc[t].active
    /\ \E s \in Step(S, t) : Set(s)

\* ------------------------------------------------------- connections
Secret == "secret"
Users == {"sam", ""}
FirstMsgs ==
    [kind : {"hello"}, token : {Secret, "wrong", ""}, user : Users]
    \cup [kind : {"prompt", "ping", "malformed"}, token : {""}, user : {""}]

\* What the peer has done: sent a hello that carries the session's token.
PresentsSecret(m) == m.kind = "hello" /\ m.token = Secret

\* Lines 72 and 75: the first message is a hello carrying the invite token.
HelloAcceptedAnyToken(m) == m.kind = "hello"
HelloAccepted(m) == m.kind = "hello" /\ m.token = Secret

\* Lines 72-81: what the handler sends to the connection itself in reply to
\* its first message, before any broadcast.
HelloReplies(m) ==
    CASE m.kind = "malformed" -> <<>>
      [] m.kind # "hello" -> <<"error">>
      [] m.token # Secret -> <<"error">>
      [] OTHER -> <<>>

\* Line 78: the name the peer asked for, "user" when it gave none.
RequestedName(m) == IF m.user = "" THEN "user" ELSE m.user

\* Line 79: the registry key the connection is stored under.
AssignedName(d, requested) == requested

\* The server accepts a connection and starts its handler (line 54).
Connect(c) ==
    /\ pc[c] = "idle"
    /\ pc[Main] # "closed"
    /\ \A b \in Conns : b < c => pc[b] # "idle"
    /\ Set([S EXCEPT !.pc[c] = "hello", !.open[c] = TRUE])

\* Lines 70-81: the first message.
Hello(c, m) ==
    /\ pc[c] = "hello"
    /\ open[c]
    /\ LET s0 == [S EXCEPT !.peer[c].first =
                       IF HelloAccepted(m) THEN "good" ELSE "bad",
                            !.peer[c].knows = PresentsSecret(m),
                            !.peer[c].invited =
                       \E i \in DOMAIN HelloReplies(m) : HelloReplies(m)[i] = "invite"] IN
       IF m.kind = "malformed"
       THEN \E s \in Finally(s0, c) : Set(s)
       ELSE IF ~HelloAccepted(m)
       THEN \E s \in Finally([s0 EXCEPT !.peer[c].helloErrors = Min2(@ + 1, 2)], c) : Set(s)
       ELSE LET n == AssignedName(connections, RequestedName(m))
                s1 == Mutate([s0 EXCEPT !.name[c] = n], c,
                             DictSet(connections, n, c))
            IN \E s \in Begin(s1, c, <<SystemMsg("joined"), ParticipantsMsg>>, "joined") :
                  Set(s)

\* recv() raises ConnectionClosed (lines 70, 82, 88): the peer has closed
\* its end, or the server has closed the connection.
RecvClosed(c) ==
    /\ pc[c] \in {"hello", "loop"}
    /\ \E s \in Finally([S EXCEPT !.open[c] = FALSE], c) : Set(s)

\* Lines 123-125: the append under the lock, then the acknowledgment.
Enqueue(s, c, l) ==
    LET n == s.hist.accepted + 1
        s1 == [s EXCEPT !.pending = Append(@, [user |-> s.name[c], id |-> n]),
                        !.last_prompt_ts = "set",
                        !.elapsed = 0,
                        !.lock = l,
                        !.hist.accepted = n]
    IN Begin(s1, c, <<SystemMsg("received prompt")>>, "received")

\* str.strip() on a text of letters and blanks.
RECURSIVE LStrip(_), RStrip(_)
LStrip(text) == IF text # <<>> /\ Head(text) = " " THEN LStrip(Tail(text)) ELSE text
RStrip(text) == IF text # <<>> /\ text[Len(text)] = " "
                THEN RStrip(SubSeq(text, 1, Len(text) - 1)) ELSE text

\* Line 119: (text or "").strip().
StripNothing(text) == text
Strip(text) == RStrip(LStrip(text))

AllBlank(text) == \A i \in DOMAIN text : text[i] = " "

\* Lines 84-85, 118-122: a prompt message with the given text.  Blank text
\* returns at line 121; other text goes for the lock.
RecvText(c, text) ==
    /\ pc[c] = "loop"
    /\ open[c]
    /\ LET s0 == [S EXCEPT !.peer[c].odd = IF AllBlank(text) THEN "blank" ELSE @] IN
       IF Strip(text) = <<>>
       THEN Set(s0)
       ELSE /\ hist.accepted + Cardinality({b \in Conns : pc[b] = "lockwait"}) < MaxPrompts
            /\ IF LockFree(lock)
               THEN \E s \in Enqueue(s0, c, lock) : Set(s)
               ELSE Set([s0 EXCEPT !.lock = Enqueued(@, c), !.pc[c] = "lockwait"])

\* A prompt message with text that is not blank.
RecvPrompt(c) == RecvText(c, <<"a">>)

\* A prompt message with no text, or with blanks only.
BlankTexts == {<<>>, <<" ">>, <<" ", " ">>}

RecvBlankPrompt(c) == \E text \in BlankTexts : RecvText(c, text)

\* Lines 84-87: what the handler sends back for a message of the given type,
\* beyond what _enqueue_prompt does for a prompt.
DispatchReplies(type) == IF type = "ping" THEN <<"pong">> ELSE <<>>

\* Message types that are not client-to-host types of the protocol.
OtherTypes == {"pong", "hello", "bogus"}

\* Lines 83-87: a message of another type is decoded and matches no branch.
RecvOther(c, type) ==
    /\ pc[c] = "loop"
    /\ open[c]
    /\ Set([S EXCEPT !.peer[c].odd = "unknown",
                     !.peer[c].helloErrors =
                         IF \E i \in DOMAIN DispatchReplies(type) :
                                DispatchReplies(type)[i] = "error"
                         THEN Min2(@ + 1, 2) ELSE @])

\* The handler gets the lock it waited for at line 122.
EnqueueWake(c) ==
    /\ pc[c] = "lockwait"
    /\ LockGranted(lock, c)
    /\ \E s \in Enqueue(S, c, Released(TakenBy(lock, c))) : Set(s)

\* Line 83: a message that is not JSON; the exception ends the handler.
RecvMalformed(c) ==
    /\ pc[c] = "loop"
    /\ open[c]
    /\ \E s \in Finally(S, c) : Set(s)

\* The peer sends a ping; it waits in the connection until the handler's
\* "async for" reads it (line 82).
PeerPing(c) ==
    /\ name[c] # NoName
    /\ pc[c] \in {"joined", "loop", "lockwait", "received"}
    /\ open[c]
    /\ ~peer[c].pinged
    /\ Set([S EXCEPT !.peer[c].pinged = TRUE])

\* Lines 86-87: the handler reads the ping and sends the pong; a send to a
\* peer that has closed raises ConnectionClosed (line 88).
RecvPing(c) ==
    /\ pc[c] = "loop"
    /\ open[c]
    /\ peer[c].pinged
    /\ LET s0 == [S EXCEPT !.peer[c].pinged = FALSE] IN
       \E ok \in IF env = "stable" THEN {TRUE} ELSE {TRUE, FALSE} :
           IF ok THEN Set(s0)
           ELSE \E s \in Finally([s0 EXCEPT !.open[c] = FALSE], c) : Set(s)

\* ------------------------------------------------------------ start
StartOutcomes == {"ok", "exit", "spawn_error"}

\* _start_claude (lines 165-200) and start's reaction (lines 58-63).
\* "exit": the command ended non-zero or printed no session id.
StartClaude(o) ==
    /\ pc[Main] = "start"
    /\ LET here == {c \in DictValues(connections) : open[c]}
           failed == [S EXCEPT !.hist.startFailed = TRUE, !.hist.atStartFail = here]
       IN CASE o = "ok" ->
                 \E s \in Begin(S, Main, <<SystemMsg("claude started")>>, "started") :
                    Set(s)
            [] o = "exit" -> \E s \in Shutdown(failed) : Set(s)
            [] o = "spawn_error" ->
                 \E s \in Begin(failed, Main, <<ErrorMsg("failed to start claude")>>,
                                "startfail") : Set(s)

\* -------------------------------------------------------- _dedupe_loop
\* Line 134, negated: the window has passed since the last submission.
WindowNeverElapsed(e) == FALSE
WindowElapsed(e) == e >= Window

\* Line 137: the batch a cut takes; line 138: what it leaves in the queue.
CutBatch(p) == p
AfterCutKeeps(p) == p
AfterCut(p) == <<>>

\* Line 140, negated: the batch is large enough to be processed.
BatchRunsAlways(b, min) == TRUE
BatchRuns(b, min) == Len(b) >= min

Ids(b) == {b[i].id : i \in DOMAIN b}

\* Lines 136-146: the cut under the lock, then the size check.
Cut(s, l) ==
    LET b == CutBatch(s.pending)
        s1 == [s EXCEPT !.batch = b,
                        !.pending = AfterCut(@),
                        !.last_prompt_ts = "None",
                        !.lock = l,
                        !.hist.cutCount = [p \in 1..MaxPrompts |->
                                             IF p \in Ids(b) THEN Min2(@[p] + 1, 2) ELSE @[p]],
                        !.hist.short = IF Len(b) < s.min_prompts THEN @ \cup Ids(b) ELSE @]
    IN IF BatchRuns(b, s.min_prompts)
       THEN Begin(s1, Main, <<SystemMsg("deduping")>>, "deduping")
       ELSE {Asleep(s1)}

\* Lines 129-136: the loop wakes and finds the cut condition true.  (A wake
\* that finds it false goes back to sleep and changes nothing.)
DedupeWake ==
    /\ pc[Main] = "sleep"
    /\ pending # <<>>
    /\ last_prompt_ts # "None"
    /\ WindowElapsed(elapsed)
    /\ IF LockFree(lock)
       THEN \E s \in Cut(S, lock) : Set(s)
       ELSE Set([S EXCEPT !.lock = Enqueued(@, Main), !.pc[Main] = "cutwait"])

\* The loop's task gets the lock it waited for: at line 136 it cuts, at
\* line 221 it goes on to run the resume command.
LoopWake ==
    /\ pc[Main] \in {"cutwait", "writewait"}
    /\ LockGranted(lock, Main)
    /\ IF pc[Main] = "cutwait"
       THEN \E s \in Cut(S, Released(TakenBy(lock, Main))) : Set(s)
       ELSE Set([S EXCEPT !.lock = TakenBy(@, Main), !.pc[Main] = "claude",
                          !.hist.resumes = Min2(@ + 1, 2)])

\* Time passes.  The clock is read only by the loop, at line 134, against a
\* set timestamp: time that passes while the loop is busy passes here, once
\* it is back at its sleep.
Tick ==
    /\ pc[Main] \in {"sleep", "cutwait"}
    /\ last_prompt_ts = "set"
    /\ elapsed < Window
    /\ Set([S EXCEPT !.elapsed = @ + 1])

\* ------------------------------------------------------- _process_batch
\* dedupe.py lines 107-110: the collaborator with a key, else the fallback.
MergeViaCollaborator(k) == "gemini"
MergeVia(k) == IF k # "" THEN "gemini" ELSE "fallback"

\* dedupe_with_gemini (dedupe.py lines 42-68): merged text, possibly empty
\* after strip, or an exception; "http_401" and "http_500" are line 60.
GeminiOutcomes == {"ok", "empty", "http_401", "http_500", "no_candidates", "network"}
GeminiRaises(o) == o \notin {"ok", "empty"}

\* str(exc), as far as line 153 reads it.
ExcText(o) == IF o \in {"http_401", "http_500"} THEN "Gemini API error" ELSE "other"

\* Line 153: the failure invalidates the key.
InvalidatesKey(o) == ExcText(o) = "Gemini API error"

\* Lines 148-163: build_deduped_prompt returns or raises.
MergeDone(o) ==
    /\ pc[Main] = "merge"
    /\ MergeVia(key) = "fallback" => o = "ok"
    /\ LET via == MergeVia(key)
           s0 == S
       IN IF via = "gemini" /\ GeminiRaises(o)
          THEN IF InvalidatesKey(o)
               THEN \E s \in Begin([s0 EXCEPT !.api_key = "",
                                               !.hist.authRejected = @ \/ o = "http_401"],
                                    Main,
                                    <<ErrorMsg("API key invalid")>>, "mergeerr") : Set(s)
               ELSE \E s \in Begin(s0, Main, <<ErrorMsg("dedupe failed")>>,
                                    "mergeerr") : Set(s)
          ELSE \E s \in Begin([s0 EXCEPT !.combined =
                                    [via |-> via,
                                     text |-> IF o = "empty" THEN "empty" ELSE "text",
                                     items |-> batch]],
                              Main, <<SystemMsg("running claude")>>, "running") : Set(s)

\* ----------------------------------------------- _write_prompt_to_claude
ClaudeOutcomes == {"ok", "fail", "spawn_error"}

\* Lines 230-263: the resume command ends, or could not be spawned.
ClaudeDone(o) ==
    /\ pc[Main] = "claude"
    /\ LET s0 == [S EXCEPT !.hist.resumes = @ - 1] IN
       CASE o = "ok" ->
              \E s \in Begin(s0, Main, <<OutputMsg>>, "output") : Set(s)
         [] o = "fail" ->
              \E s \in Begin(s0, Main, <<ErrorMsg("claude command failed")>>,
                             "output") : Set(s)
         [] o = "spawn_error" ->
              \E s \in Begin([s0 EXCEPT !.lock = Released(@)], Main,
                             <<ErrorMsg("Failed to send prompt")>>, "sendfail") : Set(s)

\* The lock after a cancelled acquire() has left its queue.
WithoutWaiter(l, t) == [l EXCEPT !.waiters = SelectSeq(@, LAMBDA w : w # t)]

\* The session is interrupted: the task running start() is cancelled where
\* it is suspended.  CancelledError is no Exception, so no handler of the
\* loop catches it; "async with self._lock" releases the lock on the way
\* out, and start()'s finally calls shutdown() (lines 64-65).  A cancel
\* inside shutdown()'s own summary call leaves the file unwritten.
Cancel ==
    /\ pc[Main] # "closed"
    /\ LET s1 == IF bc[Main].active THEN BcEnd(S, Main) ELSE S
           s2 == [s1 EXCEPT !.todo[Main] = <<>>,
                            !.lock = IF pc[Main] \in {"claude", "output"}
                                     THEN Released(@)
                                     ELSE WithoutWaiter(@, Main)]
       IN IF pc[Main] = "summary" THEN Set(Closed(s2))
          ELSE \E s \in Crashed(s2) : Set(s)

\* Line 280: the summary call returns or raises; the file is written.
SummaryDone ==
    /\ pc[Main] \in {"summary", "summary61"}
    /\ LET s1 == [S EXCEPT !.hist.writes = Min2(@ + 1, 2)] IN
       IF pc[Main] = "summary61"
       THEN \E s \in ShutdownCall(s1, 0) : Set(s)
       ELSE Set(Closed(s1))

\* ------------------------------------------------------------------ Next
Next ==
    \/ \E c \in Conns : Connect(c)
    \/ \E c \in Conns : \E m \in FirstMsgs : Hello(c, m)
    \/ \E c \in Conns : RecvClosed(c)
    \/ \E c \in Conns : RecvPrompt(c)
    \/ \E c \in Conns : EnqueueWake(c)
    \/ \E c \in Conns : RecvMalformed(c)
    \/ \E c \in Conns : PeerPing(c)
    \/ \E c \in Conns : RecvPing(c)
    \/ \E c \in Conns : RecvBlankPrompt(c)
    \/ \E c \in Conns : \E type \in OtherTypes : RecvOther(c, type)
    \/ \E t \in Tasks : BroadcastStep(t)
    \/ \E o \in StartOutcomes : StartClaude(o)
    \/ DedupeWake
    \/ LoopWake
    \/ Tick
    \/ \E o \in GeminiOutcomes : MergeDone(o)
    \/ \E o \in ClaudeOutcomes : ClaudeDone(o)
    \/ SummaryDone
    \/ Cancel

Spec == Init /\ [][Next]_vars

\* ------------------------------------------------- the party being formed
\* The session from its start while peers join and leave; no prompt is sent.
NextRelay ==
    \/ \E c \in Conns : Connect(c)
    \/ \E c \in Conns : \E m \in FirstMsgs : Hello(c, m)
    \/ \E c \in Conns : RecvClosed(c)
    \/ \E c \in Conns : RecvMalformed(c)
    \/ \E t \in Tasks : BroadcastStep(t)
    \/ \E o \in StartOutcomes : StartClaude(o)

SpecRelay == Init /\ [][NextRelay]_vars

\* ------------------------------------------------------ the party at work
\* The session once claude has started and every peer has joined, peer c
\* under PartyUser(c): the registry is what the joins in order leave.
PartyUser(c) == IF c % 2 = 1 THEN "sam" ELSE "user"

RECURSIVE Joined(_)
Joined(n) == IF n = 0 THEN <<>> ELSE DictSet(Joined(n - 1), PartyUser(n), n)

InitPipeline ==
    /\ env = "stable"
    /\ min_prompts \in 1..MaxMinPrompts
    /\ connections = Joined(MaxConns)
    /\ pending = <<>>
    /\ last_prompt_ts = "None"
    /\ elapsed = 0
    /\ lock = [locked |-> FALSE, waiters |-> <<>>]
    /\ api_key = "key"
    /\ deduped_prompts = <<>>
    /\ context_written = FALSE
    /\ pc = [t \in Tasks |-> IF t = Main THEN "sleep" ELSE "loop"]
    /\ bc = [t \in Tasks |-> NoBc]
    /\ todo = [t \in Tasks |-> <<>>]
    /\ batch = <<>>
    /\ combined = NoCombined
    /\ key = ""
    /\ name = [c \in Conns |-> PartyUser(c)]
    /\ open = [c \in Conns |-> TRUE]
    /\ peer = [c \in Conns |-> [helloErrors |-> 0, startErrors |-> 0, first |-> "good",
                               pinged |-> FALSE, invited |-> FALSE, lefts |-> 0,
                               view |-> {}, odd |-> "none", knows |-> TRUE]]
    /\ hist = [accepted |-> 0, cutCount |-> [p \in 1..MaxPrompts |-> 0],
               short |-> {}, authRejected |-> FALSE,
               startFailed |-> FALSE, atStartFail |-> {},
               summaries |-> 0, writes |-> 0, resumes |-> 0]
    /\ codec = NoCodec
    /\ bus = NoBus

NextPipeline ==
    \/ \E c \in Conns : RecvPrompt(c)
    \/ \E c \in Conns : EnqueueWake(c)
    \/ \E t \in Tasks : BroadcastStep(t)
    \/ DedupeWake
    \/ LoopWake
    \/ Tick
    \/ \E o \in GeminiOutcomes : MergeDone(o)
    \/ \E o \in ClaudeOutcomes : ClaudeDone(o)

SpecPipeline == InitPipeline /\ [][NextPipeline]_vars

\* A whole session with peers that stay, from the start of the hosted process
\* to the end by a failed start, by an exception or by an interrupt; all
\* peers but the last have joined, the last connects during the session.
InitSession ==
    /\ env = "stable"
    /\ min_prompts \in 1..MaxMinPrompts
    /\ connections = Joined(MaxConns - 1)
    /\ pending = <<>>
    /\ last_prompt_ts = "None"
    /\ elapsed = 0
    /\ lock = [locked |-> FALSE, waiters |-> <<>>]
    /\ api_key = "key"
    /\ deduped_prompts = <<>>
    /\ context_written = FALSE
    /\ pc = [t \in Tasks |-> IF t = Main THEN "start"
                              ELSE IF t < MaxConns THEN "loop" ELSE "idle"]
    /\ bc = [t \in Tasks |-> NoBc]
    /\ todo = [t \in Tasks |-> <<>>]
    /\ batch = <<>>
    /\ combined = NoCombined
    /\ key = ""
    /\ name = [c \in Conns |-> IF c < MaxConns THEN PartyUser(c) ELSE NoName]
    /\ open = [c \in Conns |-> c < MaxConns]
    /\ peer = [c \in Conns |-> [helloErrors |-> 0, startErrors |-> 0,
                               first |-> IF c < MaxConns THEN "good" ELSE "none",
                               pinged |-> FALSE, invited |-> FALSE, lefts |-> 0,
                               view |-> {}, odd |-> "none", knows |-> c < MaxConns]]
    /\ hist = [accepted |-> 0, cutCount |-> [p \in 1..MaxPrompts |-> 0],
               short |-> {}, authRejected |-> FALSE,
               startFailed |-> FALSE, atStartFail |-> {},
               summaries |-> 0, writes |-> 0, resumes |-> 0]
    /\ codec = NoCodec
    /\ bus = NoBus

NextSession ==
    \/ \E c \in Conns : Connect(c)
    \/ \E c \in Conns : \E m \in FirstMsgs : Hello(c, m)
    \/ \E c \in Conns : RecvPrompt(c)
    \/ \E c \in Conns : EnqueueWake(c)
    \/ \E t \in Tasks : BroadcastStep(t)
    \/ \E o \in StartOutcomes : StartClaude(o)
    \/ DedupeWake
    \/ LoopWake
    \/ Tick
    \/ \E o \in GeminiOutcomes : MergeDone(o)
    \/ \E o \in ClaudeOutcomes : ClaudeDone(o)
    \/ SummaryDone
    \/ Cancel

SpecSession == InitSession /\ [][NextSession]_vars

\* ------------------------------------------------------- the invite codec
StringsUpTo(chars, n) == UNION {[1..k -> chars] : k \in 0..n}

Hosts == StringsUpTo({"a", "7", ":"}, MaxHostLen)
Ports == 0..MaxPort
Tokens == StringsUpTo({"a", "7", ":", "/"}, MaxTokenLen) \ {<<>>}
TypedCodes ==
    LET rest == StringsUpTo({"a", "7", ":", "/"}, MaxCodeLen)
    IN rest \cup {INVITE_PREFIX \o r : r \in rest}

\* The host prints the invite code of its party (server.py line 56).
FormatInvite(host, port, token) ==
    /\ codec.stage = "idle"
    /\ Set([S EXCEPT !.codec = [stage |-> "formatted", host |-> host, port |-> port,
                                token |-> token,
                                code |-> format_invite(host, port, token),
                                result |-> ValueError]])

\* A user types an invite code of their own.
TypeInvite(code) ==
    /\ codec.stage = "idle"
    /\ Set([S EXCEPT !.codec = [NoCodec EXCEPT !.stage = "typed", !.code = code]])

\* The joining side parses the code it was given.
ParseInvite ==
    /\ codec.stage \in {"formatted", "typed"}
    /\ Set([S EXCEPT !.codec.stage = IF codec.stage = "formatted"
                                     THEN "round_trip" ELSE "parsed",
                     !.codec.result = parse_invite(codec.code)])

NextInvite ==
    \/ /\ codec.stage = "idle"
       /\ \E host \in Hosts : \E port \in Ports : \E token \in Tokens :
             FormatInvite(host, port, token)
    \/ /\ codec.stage = "idle"
       /\ \E code \in TypedCodes : TypeInvite(code)
    \/ ParseInvite

\* The codec does not read the session: its state is the state after
\* construction, under the default --min-prompts (cli.py line 27).
InitInvite == Init /\ min_prompts = 1

SpecInvite == InitInvite /\ [][NextInvite]_vars

\* The party at work under asyncio's scheduling: a task that can run does
\* run (the event loop serves its ready queue in order), the loop's sleep
\* ends, time passes, and the merge call and the resume command end.  Peers
\* are not obliged to submit anything.
FairPipeline ==
    /\ SpecPipeline
    /\ \A t \in Tasks : WF_vars(BroadcastStep(t))
    /\ \A c \in Conns : WF_vars(EnqueueWake(c))
    /\ WF_vars(DedupeWake)
    /\ WF_vars(LoopWake)
    /\ WF_vars(Tick)
    /\ WF_vars(\E o \in GeminiOutcomes : MergeDone(o))
    /\ WF_vars(\E o \in ClaudeOutcomes : ClaudeDone(o))

\* The party at work, with peers that also send prompts of blanks and
\* messages of types the handler does not know.
NextDispatch ==
    \/ \E c \in Conns : RecvPrompt(c)
    \/ \E c \in Conns : RecvBlankPrompt(c)
    \/ \E c \in Conns : \E type \in OtherTypes : RecvOther(c, type)
    \/ \E c \in Conns : EnqueueWake(c)
    \/ \E t \in Tasks : BroadcastStep(t)
    \/ DedupeWake
    \/ LoopWake
    \/ Tick
    \/ \E o \in GeminiOutcomes : MergeDone(o)
    \/ \E o \in ClaudeOutcomes : ClaudeDone(o)

SpecDispatch == InitPipeline /\ [][NextDispatch]_vars

\* The party at work while a newcomer knocks: all peers but the last have
\* joined; the last connects and sends a first message of any kind, while
\* the others submit prompts and probe with pings.
InitGate ==
    /\ env = "stable"
    /\ min_prompts \in 1..MaxMinPrompts
    /\ connections = Joined(MaxConns - 1)
    /\ pending = <<>>
    /\ last_prompt_ts = "None"
    /\ elapsed = 0
    /\ lock = [locked |-> FALSE, waiters |-> <<>>]
    /\ api_key = "key"
    /\ deduped_prompts = <<>>
    /\ context_written = FALSE
    /\ pc = [t \in Tasks |-> IF t = Main THEN "sleep"
                              ELSE IF t < MaxConns THEN "loop" ELSE "idle"]
    /\ bc = [t \in Tasks |-> NoBc]
    /\ todo = [t \in Tasks |-> <<>>]
    /\ batch = <<>>
    /\ combined = NoCombined
    /\ key = ""
    /\ name = [c \in Conns |-> IF c < MaxConns THEN PartyUser(c) ELSE NoName]
    /\ open = [c \in Conns |-> c < MaxConns]
    /\ peer = [c \in Conns |-> [helloErrors |-> 0, startErrors |-> 0,
                               first |-> IF c < MaxConns THEN "good" ELSE "none",
                               pinged |-> FALSE, invited |-> FALSE, lefts |-> 0,
                               view |-> {}, odd |-> "none", knows |-> c < MaxConns]]
    /\ hist = [accepted |-> 0, cutCount |-> [p \in 1..MaxPrompts |-> 0],
               short |-> {}, authRejected |-> FALSE,
               startFailed |-> FALSE, atStartFail |-> {},
               summaries |-> 0, writes |-> 0, resumes |-> 0]
    /\ codec = NoCodec
    /\ bus = NoBus

NextGate ==
    \/ \E c \in Conns : Connect(c)
    \/ \E c \in Conns : \E m \in FirstMsgs : Hello(c, m)
    \/ \E c \in Conns : RecvPrompt(c)
    \/ \E c \in Conns : EnqueueWake(c)
    \/ \E c \in Conns : PeerPing(c)
    \/ \E c \in Conns : RecvPing(c)
    \/ \E t \in Tasks : BroadcastStep(t)
    \/ DedupeWake
    \/ LoopWake
    \/ Tick
    \/ \E o \in GeminiOutcomes : MergeDone(o)
    \/ \E o \in ClaudeOutcomes : ClaudeDone(o)

SpecGate == InitGate /\ [][NextGate]_vars

\* The party at work with peers that drop out: a peer closes its end, or
\* sends a message that is not JSON, while its handler waits for its next
\* message; no send fails on a connection the host has not seen closed.
\* --min-prompts has its default (cli.py line 27).
InitChurn ==
    /\ env = "stable"
    /\ min_prompts = 1
    /\ connections = Joined(MaxConns)
    /\ pending = <<>>
    /\ last_prompt_ts = "None"
    /\ elapsed = 0
    /\ lock = [locked |-> FALSE, waiters |-> <<>>]
    /\ api_key = "key"
    /\ deduped_prompts = <<>>
    /\ context_written = FALSE
    /\ pc = [t \in Tasks |-> IF t = Main THEN "sleep" ELSE "loop"]
    /\ bc = [t \in Tasks |-> NoBc]
    /\ todo = [t \in Tasks |-> <<>>]
    /\ batch = <<>>
    /\ combined = NoCombined
    /\ key = ""
    /\ name = [c \in Conns |-> PartyUser(c)]
    /\ open = [c \in Conns |-> TRUE]
    /\ peer = [c \in Conns |-> [helloErrors |-> 0, startErrors |-> 0, first |-> "good",
                               pinged |-> FALSE, invited |-> FALSE, lefts |-> 0,
                               view |-> {}, odd |-> "none", knows |-> TRUE]]
    /\ hist = [accepted |-> 0, cutCount |-> [p \in 1..MaxPrompts |-> 0],
               short |-> {}, authRejected |-> FALSE,
               startFailed |-> FALSE, atStartFail |-> {},
               summaries |-> 0, writes |-> 0, resumes |-> 0]
    /\ codec = NoCodec
    /\ bus = NoBus

NextChurn ==
    \/ \E c \in Conns : RecvClosed(c)
    \/ \E c \in Conns : RecvPrompt(c)
    \/ \E c \in Conns : EnqueueWake(c)
    \/ \E c \in Conns : RecvMalformed(c)
    \/ \E t \in Tasks : BroadcastStep(t)
    \/ DedupeWake
    \/ LoopWake
    \/ Tick
    \/ \E o \in GeminiOutcomes : MergeDone(o)
    \/ \E o \in ClaudeOutcomes : ClaudeDone(o)
    \/ SummaryDone

SpecChurn == InitChurn /\ [][NextChurn]_vars

\* The party at work, with peers that also probe the host with pings.
NextPing ==
    \/ \E c \in Conns : RecvPrompt(c)
    \/ \E c \in Conns : EnqueueWake(c)
    \/ \E c \in Conns : PeerPing(c)
    \/ \E c \in Conns : RecvPing(c)
    \/ \E t \in Tasks : BroadcastStep(t)
    \/ DedupeWake
    \/ LoopWake
    \/ Tick
    \/ \E o \in GeminiOutcomes : MergeDone(o)
    \/ \E o \in ClaudeOutcomes : ClaudeDone(o)

SpecPing == InitPipeline /\ [][NextPing]_vars

\* ------------------------------------------------ the prompt bus at work
\* Commands run as separate processes on one database.  Every writing
\* statement needs the database's write lock: BEGIN IMMEDIATE takes it until
\* COMMIT, a single INSERT or UPDATE followed by commit() takes it for that
\* statement.  A command that finds the lock taken waits for it.


\* The prompt texts submitted, as token sets, and the thresholds given with
\* --threshold, in hundredths (0.35 is the default).
PromptTexts == {{"a"}, {"a", "b"}, {"c"}}
Thresholds == {35, 5}

WriterFreeAlways(w) == TRUE

WriterFree(w) == w = 0

\* cmd_submit: the INSERT and its commit.
Submit(tokens) ==
    /\ Len(bus.db.prompts) < MaxBusPrompts
    /\ WriterFree(bus.writer)
    /\ Set([S EXCEPT !.bus =
          [bus EXCEPT !.db.prompts =
              Append(@, [tokens |-> tokens, status |-> "NEW", task_id |-> 0])]])

\* A command is started: the agent loop and cmd_dedupe begin with the
\* dedupe transaction.
Start(p, role) ==
    /\ bus.proc[p].pc = "idle"
    /\ Set([S EXCEPT !.bus =
          [bus EXCEPT !.proc[p].pc = "begin_dedupe", !.proc[p].role = role]])

\* cmd_run up to run_task: with a task id (0 is "no id": the test is
\* `if args.task_id`) the row is read as it is; without, the task is claimed.
StartRun(p, task_id) ==
    /\ bus.proc[p].pc = "idle"
    /\ Set([S EXCEPT !.bus =
          IF task_id = 0
              THEN [bus EXCEPT !.proc[p].pc = "begin_claim", !.proc[p].role = "run"]
              ELSE IF task_id \notin DOMAIN bus.db.tasks
              THEN [bus EXCEPT !.proc[p].pc = "done", !.proc[p].role = "run"]
              ELSE [bus EXCEPT !.proc[p].pc = "running", !.proc[p].role = "run",
                               !.proc[p].task = [id |-> task_id,
                                                 prompt |-> bus.db.tasks[task_id].prompt]]])

\* conn.execute("BEGIN IMMEDIATE"), before dedupe and in claim_next_task.
BeginImmediate(p) ==
    /\ bus.proc[p].pc \in {"begin_dedupe", "begin_claim"}
    /\ WriterFree(bus.writer)
    /\ Set([S EXCEPT !.bus =
          [bus EXCEPT !.writer = p,
                          !.proc[p].pc = IF @ = "begin_dedupe" THEN "dedupe" ELSE "select"]])

\* dedupe and COMMIT; cmd_dedupe ends, the agent goes on to claim.
DedupeCommit(p, pct) ==
    /\ bus.proc[p].pc = "dedupe"
    /\ Set([S EXCEPT !.bus =
          [bus EXCEPT !.db = dedupe(@, pct), !.writer = 0,
                          !.proc[p].pc = IF bus.proc[p].role = "agent"
                                         THEN "begin_claim" ELSE "done"]])

\* claim_next_task, the SELECT: the NEW task of the lowest id, if any.
ClaimSelect(p) ==
    /\ bus.proc[p].pc = "select"
    /\ Set([S EXCEPT !.bus =
          [bus EXCEPT !.proc[p].pc = "update",
                          !.proc[p].task =
                              LET rows == fetch_open_tasks(bus.db) IN
                              IF rows = <<>> THEN NoTask
                              ELSE [id |-> Head(rows),
                                    prompt |-> bus.db.tasks[Head(rows)].prompt]]])

\* claim_next_task, from `if not row` on: COMMIT and None (the agent sleeps
\* and starts over, cmd_run ends), or the UPDATE, COMMIT and the task.
ClaimUpdate(p) ==
    /\ bus.proc[p].pc = "update"
    /\ Set([S EXCEPT !.bus =
          IF bus.proc[p].task = NoTask
              THEN [bus EXCEPT !.writer = 0,
                               !.proc[p].pc = IF bus.proc[p].role = "agent"
                                              THEN "begin_dedupe" ELSE "done"]
              ELSE [bus EXCEPT !.db.tasks[bus.proc[p].task.id].status = "IN_PROGRESS",
                               !.writer = 0,
                               !.claimed = Append(@, bus.proc[p].task.id),
                               !.proc[p].pc = "running"]])

\* run_task returns the executor's exit code.
RunEnds(p, code) ==
    /\ bus.proc[p].pc = "running"
    /\ Set([S EXCEPT !.bus =
          [bus EXCEPT !.proc[p].pc = "mark", !.proc[p].code = code]])

\* mark_task_done and commit().
MarkDone(p) ==
    /\ bus.proc[p].pc = "mark"
    /\ WriterFree(bus.writer)
    /\ Set([S EXCEPT !.bus =
          [bus EXCEPT !.db = mark_task_done(@, bus.proc[p].task.id,
                                     IF bus.proc[p].code = 0 THEN "DONE" ELSE "FAILED"),
                          !.proc[p].pc = IF bus.proc[p].role = "agent"
                                         THEN "begin_dedupe" ELSE "done",
                          !.proc[p].task = NoTask, !.proc[p].code = 0]])

InitBus == Init /\ min_prompts = 1

NextBus ==
    \/ \E tokens \in PromptTexts : Submit(tokens)
    \/ \E p \in Procs : \E role \in {"agent", "dedupe"} : Start(p, role)
    \/ \E p \in Procs : \E task_id \in 0..MaxBusPrompts : StartRun(p, task_id)
    \/ \E p \in Procs : BeginImmediate(p)
    \/ \E p \in Procs : \E pct \in Thresholds : DedupeCommit(p, pct)
    \/ \E p \in Procs : ClaimSelect(p)
    \/ \E p \in Procs : ClaimUpdate(p)
    \/ \E p \in Procs : \E code \in {0, 1} : RunEnds(p, code)
    \/ \E p \in Procs : MarkDone(p)

SpecBus == InitBus /\ [][NextBus]_vars

\* ================================================================ properties
\* A handler that has registered and not yet left, with its transport open.
Authenticated(c) == name[c] # NoName /\ pc[c] \in {"joined", "loop", "lockwait", "received"}

\* Task t is inside a _broadcast call that this step neither ends nor starts.
SameSweep(t) == bc[t].active /\ bc'[t].active /\ bc'[t].msg = bc[t].msg

\* Task t's _broadcast call ends in this step, by return or by exception.
SweepEnds(t) == bc[t].active /\ ~SameSweep(t)

\* C1: after any sequence of joins, every authenticated open connection has
\* its own registry entry (a join under a name already registered gets a
\* distinct name, so no earlier entry is lost).
C1_OwnRegistryEntry ==
    \A c \in Conns :
        Authenticated(c) /\ open[c] =>
            \E i \in DOMAIN connections :
                connections[i] = [name |-> name[c], ws |-> c]

\* C2: a connection whose first message is not a hello with the session
\* secret has, once its handler is over, been sent exactly one error message;
\* it is never in the registry and never gets a name to be announced under.
C2_RejectedHello ==
    \A c \in Conns :
        peer[c].first = "bad" =>
            /\ c \notin DictValues(connections)
            /\ name[c] = NoName
            /\ pc[c] = "done"
            /\ peer[c].helloErrors = 1

\* C3: every accepted prompt is in exactly one place: still in the queue and
\* in no cut batch, or out of the queue and in exactly one cut batch.
C3_ExactlyOneBatch ==
    \A p \in 1..MaxPrompts :
        IF p <= hist.accepted
        THEN hist.cutCount[p] +
             Cardinality({i \in DOMAIN pending : pending[i].id = p}) = 1
        ELSE hist.cutCount[p] = 0 /\ p \notin Ids(pending)

\* C3's case: a batch of prompts from two different peers has been cut while
\* a prompt accepted later is in the queue.
C3_Witness ==
    /\ Len(batch) >= 2
    /\ \E i, j \in DOMAIN batch : batch[i].user # batch[j].user
    /\ pending # <<>>
    /\ \A p \in Ids(batch) : hist.cutCount[p] = 1

Processing == {"deduping", "merge", "mergeerr", "running", "writewait", "claude",
               "output", "emptyerr", "sendfail"}

\* C5: a prompt cut in a batch smaller than min_prompts is out of the queue,
\* in no batch that is being processed, merged or forwarded, and in no entry
\* of the merged-prompt history; every batch being processed has at least
\* min_prompts items.
C5_SmallBatchDiscarded ==
    /\ pc[Main] \in Processing => Len(batch) >= min_prompts
    /\ \A p \in hist.short :
          /\ p \notin Ids(pending)
          /\ p \notin Ids(batch)
          /\ p \notin Ids(combined.items)
          /\ \A i \in DOMAIN deduped_prompts : p \notin Ids(deduped_prompts[i].items)

\* C5's case: a batch below the minimum has been cut and the loop is back at
\* its sleep, with a later prompt accepted since.
C5_Witness ==
    /\ hist.short # {}
    /\ pc[Main] = "sleep"
    /\ hist.accepted > Cardinality(hist.short)

\* C6: when a _broadcast call ends, every connection that was in the registry
\* when it was called has been sent the message, unless it has closed or left
\* the registry meanwhile; and when it returns, no name whose send failed is
\* still in the registry.
C6_BroadcastReachesAll ==
    [][\A t \in Tasks :
          SweepEnds(t) =>
              /\ \A c \in bc[t].snap :
                    c \in bc[t].tried \/ ~open[c] \/ c \notin DictValues(connections)
              /\ \A n \in bc[t].dead : ~DictHas(connections', n)]_vars

\* C7: no step changes the registry while some task's _broadcast call is
\* under way, between the start and the end of its sweep.
C7_NoMutationDuringSweep ==
    [][\A t \in Tasks : SameSweep(t) => DictKeys(connections') = DictKeys(connections)]_vars

\* C8: a message delivered to a peer by a _broadcast call is not preceded at
\* that peer by a message of a call issued later.
C8_IssueOrder ==
    [][\A t \in Tasks : \A c \in Conns :
          (SameSweep(t) /\ c \in bc'[t].tried \ bc[t].tried /\ open'[c])
              => c \notin bc[t].late]_vars

\* C9: when the hosted process failed to start and the session has shut down,
\* every peer that was connected at the failure has been sent exactly one
\* "failed to start" error; the loop is never entered.
C9_StartFailureReported ==
    hist.startFailed =>
        /\ pc[Main] \in {"startfail", "summary", "closed"}
        /\ pc[Main] = "closed" =>
              \A c \in hist.atStartFail : peer[c].startErrors = 1

C11_OtherFailureKeepsKey ==
    [][(pc[Main] = "merge" /\ pc'[Main] = "mergeerr"
            /\ hist'.authRejected = hist.authRejected) =>
          /\ api_key' = api_key
          /\ bc'[Main].active /\ bc'[Main].msg.type = "error"
          /\ deduped_prompts' = deduped_prompts]_vars

\* C12: a ping on its way to the handler is never held up behind the
\* handler's own wait to enqueue an earlier prompt while the hosted process
\* runs: the handler is not blocked on the lock the resume command holds.
C12_PongNotDelayed ==
    \A c \in Conns :
        (peer[c].pinged /\ open[c]) => ~(pc[c] = "lockwait" /\ pc[Main] = "claude")

\* C13: a connection for which the "joined" broadcast has been issued has
\* first been sent the invite code.
C13_InviteBeforeJoined ==
    \A c \in Conns : Authenticated(c) => peer[c].invited

\* C14: for every authenticated connection whose handler has ended, the host
\* has unregistered it and issued the "left" broadcast (followed by the
\* participants snapshot) exactly once.
C14_LeftExactlyOnce ==
    \A c \in Conns :
        (peer[c].first = "good" /\ pc[c] = "done") =>
            /\ peer[c].lefts = 1
            /\ c \notin DictValues(connections)

\* Nothing is in progress: no broadcast is under way and every handler is
\* waiting for its peer's next message, or over, or not started.
Quiet ==
    /\ \A t \in Tasks : ~bc[t].active
    /\ \A c \in Conns : pc[c] \in {"idle", "loop", "done"}

\* C15: once a connection has been pruned after a failed send and the host
\* has nothing more to do, the peers that remain have been sent a
\* participants snapshot without it: no registered peer's latest snapshot
\* names a connection that is no longer in the registry.
C15_PruneAnnounced ==
    Quiet =>
        \A d \in Conns :
            (d \in DictValues(connections) /\ pc[d] = "loop" /\ open[d]) =>
                peer[d].view \subseteq DictKeys(connections)

\* C16: over all the shutdown calls of a run, the summary is asked for at
\* most once and the context file is written at most once.
C16_SummaryAtMostOnce ==
    hist.summaries <= 1 /\ hist.writes <= 1

\* C16's case: the start has failed, shutdown has been called at line 61 and
\* again from the finally, and the file has been written.
C16_Witness ==
    /\ hist.startFailed
    /\ pc[Main] = "closed"
    /\ context_written
    /\ hist.writes = 1

\* C17: once shutdown's summary flush has begun, no connection is accepted,
\* no name is registered and no prompt is enqueued.
C17_NothingNewDuringFlush ==
    [][pc[Main] \in {"summary", "summary61"} =>
          /\ \A c \in Conns : pc[c] = "idle" => pc'[c] = "idle"
          /\ DictKeys(connections') \subseteq DictKeys(connections)
          /\ Len(pending') <= Len(pending)]_vars

\* C18: at most one delivery to the hosted process (one resume command) is in
\* progress at any time, and while one is, the loop's task holds the lock.
C18_OneResumeAtATime ==
    /\ hist.resumes <= 1
    /\ hist.resumes = 1 => lock.locked
    /\ pc[Main] = "claude" => hist.resumes = 1

\* C18's case: a second batch is being delivered while a submitter waits
\* for the lock the delivery holds.
C18_Witness ==
    /\ pc[Main] = "claude"
    /\ hist.resumes = 1
    /\ Len(deduped_prompts) = 2
    /\ lock.waiters # <<>>

\* C19: parsing the invite code formatted from a host without "/", a port
\* >= 0 and a non-empty token gives back that host, port and token.
C19_InviteRoundTrip ==
    codec.stage = "round_trip" =>
        codec.result = Invite(codec.host, codec.port, codec.token)

\* C19's case: a round trip of a host with a colon in it, a port of two
\* digits and a token with a slash in it.
C19_Witness ==
    /\ codec.stage = "round_trip"
    /\ Contains(codec.host, ":")
    /\ codec.port >= 10
    /\ Contains(codec.token, "/")
    /\ codec.result.ok

\* The invite strings the claim calls malformed: no scheme prefix, or after
\* it no "/" before the secret, no ":" between host and port, or a port that
\* is not an integer.
Malformed(c) ==
    \/ ~StartsWith(c, INVITE_PREFIX)
    \/ LET code == SubSeq(c, Len(INVITE_PREFIX) + 1, Len(c)) IN
          \/ ~Contains(code, "/")
          \/ ~Contains(Split(code, "/")[1], ":")
          \/ ~IntParses(RSplit(Split(code, "/")[1], ":")[2])

\* C20: parsing a malformed invite string fails; no Invite is returned.
C20_MalformedRejected ==
    (codec.stage = "parsed" /\ Malformed(codec.code)) => ~codec.result.ok

\* C21: a submission that arrives while the hosted process runs a previous
\* batch is enqueued without waiting for that run: no handler waits for the
\* queue's lock while the resume command, or the relay of its output, holds it.
C21_SubmitNotBlockedByRun ==
    \A c \in Conns : pc[c] = "lockwait" => pc[Main] \notin {"claude", "output"}

\* C22: an error on one connection (a message that is not JSON, a closed
\* transport, a failed send) ends at most that connection's handler: it never
\* ends the debounce loop and never brings the session to its shutdown.
C22_SessionSurvivesPeers ==
    pc[Main] \notin {"summary", "summary61", "closed"}

\* A delivery to the hosted process has failed and its error is being
\* reported: the command could not be spawned (lines 262-263), or it ended
\* with a non-zero code (lines 241-254).
FailedDelivery ==
    \/ pc[Main] = "sendfail"
    \/ pc[Main] = "output" /\ bc[Main].msg = ErrorMsg("claude command failed")

\* C23: a failed delivery is reported by an error broadcast and does not
\* leave the pipeline stuck: the loop comes back to its sleep with the lock
\* free (it is free whenever the loop is not delivering), and prompts that
\* are in the queue at the failure are cut afterwards.
C23_FailedDeliveryRecovers ==
    /\ [](FailedDelivery => bc[Main].active /\ bc[Main].msg.type = "error")
    /\ [](pc[Main] \notin {"claude", "output"} => ~lock.locked)
    /\ FailedDelivery ~> (pc[Main] = "sleep" /\ ~lock.locked)
    /\ (FailedDelivery /\ pending # <<>>) ~> (pc[Main] = "deduping" \/ hist.short # {})

\* C23's case: the resume command could not be spawned, the error is being
\* broadcast with the lock released, and a later prompt is in the queue.
C23_Witness ==
    /\ pc[Main] = "sendfail"
    /\ bc[Main].msg = ErrorMsg("Failed to send prompt")
    /\ ~lock.locked
    /\ pending # <<>>

C25_HistoryIsWhatWasForwarded ==
    /\ [](pc[Main] = "claude" =>
            deduped_prompts # <<>> /\ deduped_prompts[Len(deduped_prompts)] = combined)
    /\ [](pc[Main] \in {"emptyerr", "sendfail"} =>
            \A i \in DOMAIN deduped_prompts : deduped_prompts[i] # combined)
    /\ [][pc'[Main] = "mergeerr" => deduped_prompts' = deduped_prompts]_vars

\* C26: a message of no known client-to-host type, read by the handler of an
\* authenticated connection, is answered with an error to its sender.
C26_UnknownTypeRejected ==
    \A c \in Conns : peer[c].odd = "unknown" => peer[c].helloErrors >= 1

\* C27: a prompt with no text or with blanks only is a no-op: the step that
\* handles it leaves the queue, the timestamp, the time counted since the
\* last submission and the lock as they were, starts no broadcast, and
\* leaves every task where it was.
C27_BlankPromptNoOp ==
    [][\A c \in Conns :
          (peer'[c].odd = "blank" /\ peer[c].odd # "blank") =>
              /\ pending' = pending
              /\ last_prompt_ts' = last_prompt_ts
              /\ elapsed' = elapsed
              /\ lock' = lock
              /\ bc' = bc
              /\ pc' = pc
              /\ hist' = hist]_vars

\* C27's case: a blank prompt has been handled while an earlier prompt is in
\* the queue and its window is running.
C27_Witness ==
    /\ \E c \in Conns : peer[c].odd = "blank"
    /\ pending # <<>>
    /\ last_prompt_ts = "set"
    /\ elapsed > 0 /\ elapsed < Window
    /\ \A t \in Tasks : ~bc[t].active

\* C28: the queue and the timestamp change only together, and only in a step
\* of a task that has the lock to itself (no other activity holds it): an
\* append sets the timestamp, a cut empties the queue and clears the
\* timestamp.  So the queue is non-empty exactly when the timestamp is set.
C28_QueueAndTimestampTogether ==
    /\ [](pending # <<>> <=> last_prompt_ts = "set")
    /\ [][(pending' # pending \/ last_prompt_ts' # last_prompt_ts) =>
            /\ ~lock.locked
            /\ \/ /\ Len(pending') = Len(pending) + 1
                  /\ SubSeq(pending', 1, Len(pending)) = pending
                  /\ last_prompt_ts' = "set"
               \/ /\ pending # <<>>
                  /\ pending' = <<>>
                  /\ last_prompt_ts' = "None"]_vars

\* C28's case: a batch has been cut, leaving the queue empty and the
\* timestamp cleared, and a prompt appended since has set it again while the
\* batch is still being processed.
C28_Witness ==
    /\ pc[Main] \in Processing
    /\ batch # <<>>
    /\ pending # <<>>
    /\ last_prompt_ts = "set"
    /\ Ids(batch) \cap Ids(pending) = {}

\* C29: a connection that leaves removes only its own registry entry: the
\* step in which a handler with a name starts its finally leaves every other
\* registered connection whose transport is open in the registry.
C29_LeaveRemovesOnlyOwnEntry ==
    [][\A c \in Conns :
          (name[c] # NoName /\ pc[c] \notin {"leaving", "done"}
              /\ pc'[c] \in {"leaving", "done"}) =>
            \A d \in Conns \ {c} :
                (d \in DictValues(connections) /\ open[d] /\ Authenticated(d)) =>
                    d \in DictValues(connections')]_vars

\* C30: only a connection that has sent a hello with the session's token
\* affects or observes the session: no other connection is registered or has
\* a handler in the message loop, none is sent a broadcast, none has a prompt
\* enqueued, and none has a ping answered.
C30_OnlyAuthenticatedTakePart ==
    /\ [](\A c \in Conns :
            (c \in DictValues(connections) \/ name[c] # NoName
                \/ pc[c] \in {"joined", "loop", "lockwait", "received"}) => peer[c].knows)
    /\ [](\A t \in Tasks : \A c \in bc[t].tried : peer[c].knows)
    /\ [](\A c \in Conns :
            ~peer[c].knows => peer[c].view = {} /\ peer[c].startErrors = 0)
    /\ [][Len(pending') > Len(pending) =>
            \E c \in Conns :
                /\ peer[c].knows
                /\ pc[c] \in {"loop", "lockwait"}
                /\ pending'[Len(pending')].user = name[c]]_vars
    /\ [][\A c \in Conns : (peer[c].pinged /\ ~peer'[c].pinged) => peer[c].knows]_vars

\* C30's case: a connection whose first message was refused is over, while
\* a prompt of a registered peer is in the queue and a broadcast is under way.
C30_Witness ==
    /\ \E c \in Conns : peer[c].first = "bad" /\ ~peer[c].knows /\ pc[c] = "done"
    /\ pending # <<>>
    /\ \E t \in Tasks : bc[t].active /\ bc[t].tried # {}

\* C31: claim_next_task is exclusive.  However the commands interleave, no
\* task is claimed (moved to IN_PROGRESS and returned) more than once, the
\* claims come in ascending order of task id, each claim takes a task that
\* is NEW and the lowest NEW one, and a call that finds no NEW task returns
\* nothing and leaves every task as it was.
C31_ExclusiveClaim ==
    /\ [](\A i, j \in DOMAIN bus.claimed : i < j => bus.claimed[i] < bus.claimed[j])
    /\ [][Len(bus'.claimed) > Len(bus.claimed) =>
            LET t == bus'.claimed[Len(bus'.claimed)] IN
            /\ bus.db.tasks[t].status = "NEW"
            /\ bus'.db.tasks[t].status = "IN_PROGRESS"
            /\ \A u \in 1..(t - 1) : bus.db.tasks[u].status # "NEW"
            /\ Cardinality({p \in Procs : bus.proc[p].pc = "update"
                                /\ bus'.proc[p].pc = "running"
                                /\ bus'.proc[p].task.id = t}) = 1]_vars
    /\ [][\A p \in Procs :
            (bus.proc[p].pc = "update" /\ bus'.proc[p].pc # "update"
                /\ bus.proc[p].task = NoTask) =>
                bus'.db.tasks = bus.db.tasks /\ bus'.proc[p].task = NoTask]_vars

\* C31's case: two callers have each claimed a task and run them side by
\* side, and the two tasks differ.
C31_Witness ==
    /\ Len(bus.claimed) = 2
    /\ \A p \in Procs : bus.proc[p].pc = "running"
    /\ \E p, q \in Procs : bus.proc[p].task.id # bus.proc[q].task.id

\* C32: the task lifecycle.  A task being executed (its runner is in
\* run_task, position "running") has been moved from NEW
\* to IN_PROGRESS before, a task's status only moves NEW -> IN_PROGRESS ->
\* DONE or FAILED, no task is executed by two runners at the same time, and
\* run_count goes up by one exactly when an execution of the task has
\* completed and is recorded; for the agent loop and for run with and
\* without a task id.
C32_TaskLifecycle ==
    /\ [](\A p \in Procs :
            bus.proc[p].pc = "running" => bus.db.tasks[bus.proc[p].task.id].status = "IN_PROGRESS")
    /\ [](\A p, q \in Procs :
            (p # q /\ bus.proc[p].pc = "running" /\ bus.proc[q].pc = "running") =>
                bus.proc[p].task.id # bus.proc[q].task.id)
    /\ [][\A t \in DOMAIN bus.db.tasks :
            bus'.db.tasks[t].status # bus.db.tasks[t].status =>
                \/ bus.db.tasks[t].status = "NEW"
                    /\ bus'.db.tasks[t].status = "IN_PROGRESS"
                \/ bus.db.tasks[t].status = "IN_PROGRESS"
                    /\ bus'.db.tasks[t].status \in {"DONE", "FAILED"}]_vars
    /\ [][\A t \in DOMAIN bus.db.tasks :
            bus'.db.tasks[t].run_count # bus.db.tasks[t].run_count =>
                /\ bus'.db.tasks[t].run_count = bus.db.tasks[t].run_count + 1
                /\ \E p \in Procs : bus.proc[p].pc = "mark" /\ bus.proc[p].task.id = t
                                    /\ bus'.proc[p].pc # "mark"]_vars

\* C33: dedupe partitions the inbox.  In the step that commits a dedupe
\* pass, every prompt that was NEW becomes CLUSTERED with a task_id that
\* names an existing task, and has exactly one task_prompts row, the one of
\* that task; every other prompt is left as it was; and the pass creates at
\* most as many tasks as there were NEW prompts.
C33_DedupePartitions ==
    [][\A p \in Procs :
        (bus.proc[p].pc = "dedupe" /\ bus'.proc[p].pc # "dedupe") =>
            LET new == {i \in DOMAIN bus.db.prompts : bus.db.prompts[i].status = "NEW"} IN
            /\ DOMAIN bus'.db.prompts = DOMAIN bus.db.prompts
            /\ \A i \in new :
                /\ bus'.db.prompts[i].status = "CLUSTERED"
                /\ bus'.db.prompts[i].task_id \in DOMAIN bus'.db.tasks
                /\ {r \in bus'.db.task_prompts : r[2] = i}
                       = {<<bus'.db.prompts[i].task_id, i>>}
            /\ \A i \in DOMAIN bus.db.prompts \ new :
                bus'.db.prompts[i] = bus.db.prompts[i]
            /\ Len(bus'.db.tasks) >= Len(bus.db.tasks)
            /\ Len(bus'.db.tasks) - Len(bus.db.tasks) <= Cardinality(new)]_vars

\* C33's case: a `dedupe` command has committed, every submitted prompt is
\* CLUSTERED, and the passes so far have put two prompts on one task and
\* the third on another.
C33_Witness ==
    /\ \E p \in Procs : bus.proc[p].role = "dedupe" /\ bus.proc[p].pc = "done"
    /\ Len(bus.db.prompts) = MaxBusPrompts
    /\ \A i \in DOMAIN bus.db.prompts : bus.db.prompts[i].status = "CLUSTERED"
    /\ Len(bus.db.tasks) = 2
    /\ \E t \in DOMAIN bus.db.tasks : Len(bus.db.tasks[t].prompt) = 2

\* C34: no prompt is stranded on a task that has started.  The text a
\* runner is executing for a task lists every prompt attached to that task,
\* and a dedupe pass attaches a prompt to an existing task only if no
\* runner has begun executing it; under any interleaving of submit, dedupe,
\* agent and run with or without a task id.
C34_NoStrandedPrompt ==
    /\ [](\A p \in Procs :
            bus.proc[p].pc = "running" =>
                \A i \in DOMAIN bus.db.prompts :
                    bus.db.prompts[i].task_id = bus.proc[p].task.id =>
                        \E k \in DOMAIN bus.proc[p].task.prompt :
                            bus.proc[p].task.prompt[k] = i)
    /\ [][\A i \in DOMAIN bus.db.prompts :
            LET t == bus'.db.prompts[i].task_id IN
            (bus.db.prompts[i].task_id # t /\ t \in DOMAIN bus.db.tasks) =>
                /\ bus.db.tasks[t].status = "NEW"
                /\ bus.db.tasks[t].run_count = 0
                /\ \A p \in Procs :
                    bus.proc[p].pc \in {"running", "mark"} => bus.proc[p].task.id # t]_vars

====
